---- MODULE Spec2Model ----
(***************************************************************************)
(* Model of wooper_dev/actual_logic.py: resolution of package requirements *)
(* to (package, version, nixpkgs revision, input name).                    *)
(*                                                                         *)
(*   packages_from_string = get_all_candidates ; select_optimal_packages   *)
(*   get_package          = the single-requirement path                    *)
(*                                                                         *)
(* A version string is a record [pfx, rel]: an optional "v" prefix and the *)
(* dotted release numbers; rel = <<>> is the empty string, which does not  *)
(* parse.  A Version (packaging.version.Version) is its release tuple.     *)
(* A NixpkgsRev is named by its rev identifier; its date is revDate[rev].  *)
(***************************************************************************)
EXTENDS Integers, Sequences, FiniteSets, TLC

VARIABLES
    catalog,        \* the packages table: rows [package, version, rev]
    revDate,        \* the revs table: rev -> date
    requirements,   \* the request: sequence of [name, spec]
    pc,             \* position of the request in its handler
    version_rows,   \* get_all_candidates: the rows of the first query
    gac_max,        \* get_all_candidates: max_versions (name -> Version)
    candidates,     \* name -> set of Package [name, version, rev]
    max_versions,   \* select_optimal_packages: name -> Version
    optimal_revs,   \* select_optimal_packages: name -> set of revs
    uncovered,      \* select_optimal_packages: names not yet covered
    selected_revs,  \* select_optimal_packages: sequence of revs
    result,         \* the returned list of [name, version, rev, input_name]
    error,          \* the exception raised, [kind, name]
    request,        \* main.py: the HTTP request, [endpoint, parts]
    response,       \* main.py: the HTTP response, [status, detail, body]
    rev_pair,       \* two NixpkgsRev objects [rev, hash, date] under comparison
    rev_set,        \* the Python set built from rev_pair
    packages,       \* get_tarball: the Package list given to the generators
    flake_nix,      \* get_flake_nix: the generated inputs and outputs
    flake_lock,     \* get_flake_lock: the generated lock nodes
    cand_input_name \* the field _input_name of the candidate Package objects
                    \* that have it set: [name, version, rev] -> label

vars == << catalog, revDate, requirements, pc, version_rows, gac_max,
           candidates, max_versions, optimal_revs, uncovered, selected_revs,
           result, error, request, response, rev_pair, rev_set, packages,
           flake_nix, flake_lock, cand_input_name >>

\* the state of main.py and of the generators, which resolution leaves alone
outer == << request, response, rev_pair, rev_set, packages, flake_nix,
            flake_lock >>

\* ------------------------------------------------------------------------
\* Bounds of the model
\* ------------------------------------------------------------------------
MaxReqs == 2
MaxDate == 2

None == "None"
NoError == [kind |-> "none", name |-> ""]

\* before a request arrives, before a response is sent, before generation
NoRequest == [endpoint |-> "", parts |-> <<>>]
NoDetail == [text |-> "", name |-> ""]
NoResponse == [status |-> 0, detail |-> NoDetail, body |-> <<>>]
NoFlake == <<>>

\* ------------------------------------------------------------------------
\* packaging.version.Version
\* ------------------------------------------------------------------------
RECURSIVE Strip(_)
\* _cmpkey: the release with its trailing zeros dropped
Strip(rel) ==
    IF Len(rel) > 0 /\ rel[Len(rel)] = 0
    THEN Strip(SubSeq(rel, 1, Len(rel) - 1))
    ELSE rel

RECURSIVE TupleLT(_, _)
\* Python's order on tuples (and on strings, as tuples of characters)
TupleLT(a, b) ==
    IF a = <<>> THEN b # <<>>
    ELSE IF b = <<>> THEN FALSE
    ELSE IF a[1] < b[1] THEN TRUE
    ELSE IF a[1] > b[1] THEN FALSE
    ELSE TupleLT(Tail(a), Tail(b))

RECURSIVE Digits(_)
\* the decimal digits of n, most significant first
Digits(n) == IF n < 10 THEN << n >> ELSE Digits(n \div 10) \o << n % 10 >>

RECURSIVE Chars(_)
\* the characters of the dotted text of a release; "." (which sorts before
\* every digit) is written -1
Chars(rel) ==
    IF rel = <<>> THEN <<>>
    ELSE IF Len(rel) = 1 THEN Digits(rel[1])
    ELSE Digits(rel[1]) \o << -1 >> \o Chars(Tail(rel))

\* the order of the version texts as strings (what SQL max(version) uses)
StringGT(a, b) == TupleLT(Chars(b), Chars(a))

\* Version.__gt__
VersionGT(a, b) == TupleLT(Strip(b), Strip(a))

\* Version.__eq__
VersionEQ(a, b) == Strip(a) = Strip(b)

\* Version(ver_str) succeeds
IsValidVersion(s) == s.rel # <<>>

\* Version(ver_str): the "v" prefix is dropped, the release kept as written
ParseVersion(s) == s.rel

\* str(Version): the normalized text, never prefixed
StrVersion(v) == [pfx |-> "", rel |-> v]

AnySpec == [op |-> "any", ver |-> <<>>]

\* version in req.specifier
InSpecifier(v, spec) ==
    CASE spec.op = "any" -> TRUE
      [] spec.op = "ge"  -> ~VersionGT(spec.ver, v)
      [] spec.op = "lt"  -> VersionGT(spec.ver, v)
      [] spec.op = "eq"  -> VersionEQ(v, spec.ver)

\* the greatest by the order of the texts as strings
MaxVersionByString(S) == CHOOSE v \in S : \A w \in S : ~StringGT(w, v)

\* max(versions): a greatest element (equal versions are interchangeable
\* for every later use, which compares with ==)
MaxVersion(S) == CHOOSE v \in S : \A w \in S : ~VersionGT(w, v)

\* ------------------------------------------------------------------------
\* Helpers
\* ------------------------------------------------------------------------
RECURSIVE Perms(_)
\* the orders in which a set may be iterated
Perms(S) ==
    IF S = {} THEN { <<>> }
    ELSE UNION { { << x >> \o p : p \in Perms(S \ {x}) } : x \in S }

Range(s) == { s[i] : i \in 1..Len(s) }

ReqNames(reqs) == { reqs[i].name : i \in 1..Len(reqs) }

\* the requirement lists of a request: 1 to n entries
ReqLists(names, specs, n) ==
    UNION { [ 1..k -> [name : names, spec : specs] ] : k \in 1..n }

\* candidates.get(name, [])
CandidatesOf(cands, name) == IF name \in DOMAIN cands THEN cands[name] ELSE {}

\* NixpkgsRev.__gt__
RevGT(r1, r2) == revDate[r1] > revDate[r2]

\* ------------------------------------------------------------------------
\* select_optimal_packages
\* ------------------------------------------------------------------------
\* the requirements whose candidate list is empty or missing, by position
MissingAt(reqs, cands) ==
    { i \in 1..Len(reqs) : CandidatesOf(cands, reqs[i].name) = {} }

\* the last requirement without candidates, instead of the first
LastMissing(reqs, cands) ==
    CHOOSE k \in MissingAt(reqs, cands) :
        \A j \in MissingAt(reqs, cands) : j <= k

\* the requirement the loop of lines 136-139 reaches first with no candidates
FirstMissing(reqs, cands) ==
    CHOOSE k \in MissingAt(reqs, cands) :
        \A j \in MissingAt(reqs, cands) : k <= j

\* max_versions[req.name] = max(p.version for p in pkg_candidates)
MaxCandidateVersion(cands, name) ==
    MaxVersion({ p.version : p \in cands[name] })

\* optimal_revs[req.name]: the revisions carrying the maximum version
OptimalRevs(cands, maxv, name) ==
    { p.rev : p \in { q \in cands[name] : VersionEQ(q.version, maxv[name]) } }

\* all_revs: the revisions of the packages still uncovered
AllRevs(unc, opt) == UNION { opt[name] : name \in unc }

\* coverage = {name for name in uncovered if rev in optimal_revs[name]}
Coverage(rev, unc, opt) == { name \in unc : rev \in opt[name] }

\* the newer revision wins whatever it covers
BetterNewest(coverage, rev, best) ==
    \/ best.rev = None
    \/ RevGT(rev, best.rev)

\* the coverage comparison the wrong way round
BetterFlipped(coverage, rev, best) ==
    \/ Cardinality(coverage) < Cardinality(best.cov)
    \/ /\ Cardinality(coverage) = Cardinality(best.cov)
       /\ best.rev # None
       /\ RevGT(rev, best.rev)

\* among revisions covering equally many, the older one wins
BetterOlder(coverage, rev, best) ==
    \/ Cardinality(coverage) > Cardinality(best.cov)
    \/ /\ Cardinality(coverage) = Cardinality(best.cov)
       /\ best.rev # None
       /\ RevGT(best.rev, rev)

\* the test that makes rev the new best_rev
Better(coverage, rev, best) ==
    \/ Cardinality(coverage) > Cardinality(best.cov)
    \/ /\ Cardinality(coverage) = Cardinality(best.cov)
       /\ best.rev # None
       /\ RevGT(rev, best.rev)

RECURSIVE ScanRevs(_, _, _, _)
\* for rev in all_revs: ... in the order the set is iterated
ScanRevs(order, unc, opt, best) ==
    IF order = <<>> THEN best
    ELSE LET rev == Head(order)
             coverage == Coverage(rev, unc, opt)
         IN  ScanRevs(Tail(order), unc, opt,
                      IF Better(coverage, rev, best)
                      THEN [rev |-> rev, cov |-> coverage]
                      ELSE best)

\* the difference computed and dropped
NextUncoveredKept(unc, cov) == unc

\* uncovered -= best_coverage
NextUncovered(unc, cov) == unc \ cov

\* every revision given the first label
RevToInputFirst(sel) == [ r \in Range(sel) |-> 0 ]

\* the labels counted from one
RevToInputFromOne(sel) ==
    [ r \in Range(sel) |-> CHOOSE i \in 1..Len(sel) : sel[i] = r ]

\* rev_to_input[rev.rev] = f"nixpkgs-{i}": the label is the index i
RevToInput(sel) ==
    [ r \in Range(sel) |->
        (CHOOSE i \in 1..Len(sel) :
            sel[i] = r /\ \A j \in 1..Len(sel) : sel[j] = r => j <= i) - 1 ]

\* the version test left out
MatchingAnyVersion(cands, maxv, sel, name) ==
    { p \in cands[name] : p.rev \in Range(sel) }

\* the candidates of a requirement that have the maximum version and a
\* selected revision
Matching(cands, maxv, sel, name) ==
    { p \in cands[name] :
        VersionEQ(p.version, maxv[name]) /\ p.rev \in Range(sel) }

RECURSIVE MinByDate(_, _)
\* the oldest instead of the newest
MinByDate(order, best) ==
    IF order = <<>> THEN best
    ELSE MinByDate(Tail(order),
                   IF revDate[Head(order).rev] < revDate[best.rev]
                   THEN Head(order) ELSE best)

RECURSIVE MaxByDate(_, _)
\* max(matching, key=lambda p: p.nixpkgs_rev.date): the first greatest
MaxByDate(order, best) ==
    IF order = <<>> THEN best
    ELSE MaxByDate(Tail(order),
                   IF revDate[Head(order).rev] > revDate[best.rev]
                   THEN Head(order) ELSE best)

\* the packages max() may return, over the orders of the candidate list
BestOf(S) == { MaxByDate(Tail(o), Head(o)) : o \in Perms(S) }

\* best._input_name = rev_to_input[best.nixpkgs_rev.rev]
Labelled(p, sel) ==
    [name |-> p.name, version |-> p.version, rev |-> p.rev,
     input_name |-> RevToInput(sel)[p.rev]]

RECURSIVE AssignReversed(_, _, _, _, _)
\* the result built back to front
AssignReversed(i, reqs, cands, maxv, sel) ==
    IF i > Len(reqs) THEN { <<>> }
    ELSE { rest \o << Labelled(b, sel) >> :
             b \in BestOf(Matching(cands, maxv, sel, reqs[i].name)),
             rest \in AssignReversed(i + 1, reqs, cands, maxv, sel) }

RECURSIVE AssignFrom(_, _, _, _, _)
\* the result lists of the assignment loop from requirement i on
AssignFrom(i, reqs, cands, maxv, sel) ==
    IF i > Len(reqs) THEN { <<>> }
    ELSE { << Labelled(b, sel) >> \o rest :
             b \in BestOf(Matching(cands, maxv, sel, reqs[i].name)),
             rest \in AssignFrom(i + 1, reqs, cands, maxv, sel) }

\* the candidate object that a result entry is
CandidateOf(p) == [name |-> p.name, version |-> p.version, rev |-> p.rev]

\* line 197: best._input_name = ... writes the field of the candidate
\* object itself, for every entry of the result
WithInputNames(stored, res) ==
    [ c \in DOMAIN stored \cup { CandidateOf(res[i]) : i \in 1..Len(res) } |->
        IF \E i \in 1..Len(res) : CandidateOf(res[i]) = c
        THEN res[CHOOSE i \in 1..Len(res) : CandidateOf(res[i]) = c].input_name
        ELSE stored[c] ]

\* lines 135-153: maximum versions, optimal revisions, the empty selection
SelectMaxVersions ==
    /\ pc = "select"
    /\ IF MissingAt(requirements, candidates) # {}
       THEN LET i == FirstMissing(requirements, candidates)
            IN  /\ error' = [kind |-> "VersionNotFound",
                             name |-> requirements[i].name]
                /\ pc' = "done"
                /\ UNCHANGED << max_versions, optimal_revs, uncovered,
                                selected_revs >>
       ELSE LET maxv == [ name \in ReqNames(requirements) |->
                            MaxCandidateVersion(candidates, name) ]
            IN  /\ max_versions' = maxv
                /\ optimal_revs' = [ name \in ReqNames(requirements) |->
                                       OptimalRevs(candidates, maxv, name) ]
                /\ uncovered' = ReqNames(requirements)
                /\ selected_revs' = <<>>
                /\ pc' = "loop"
                /\ error' = error
    /\ UNCHANGED << catalog, revDate, requirements, version_rows, gac_max,
                    candidates, result >>
    /\ UNCHANGED outer
    /\ UNCHANGED cand_input_name

\* lines 155-179: one iteration of the greedy loop
GreedyIteration ==
    /\ pc = "loop"
    /\ uncovered # {}
    /\ \E order \in Perms(AllRevs(uncovered, optimal_revs)) :
         LET best == ScanRevs(order, uncovered, optimal_revs,
                              [rev |-> None, cov |-> {}])
         IN  IF best.rev = None
             THEN /\ pc' = "assign"
                  /\ UNCHANGED << uncovered, selected_revs >>
             ELSE /\ selected_revs' = Append(selected_revs, best.rev)
                  /\ uncovered' = NextUncovered(uncovered, best.cov)
                  /\ pc' = IF uncovered' = {} THEN "assign" ELSE "loop"
    /\ UNCHANGED << catalog, revDate, requirements, version_rows, gac_max,
                    candidates, max_versions, optimal_revs, result, error >>
    /\ UNCHANGED outer
    /\ UNCHANGED cand_input_name

\* lines 181-200: labels, the package of each requirement, the result
AssignPackages ==
    /\ pc = "assign"
    /\ IF \E i \in 1..Len(requirements) :
            Matching(candidates, max_versions, selected_revs,
                     requirements[i].name) = {}
       THEN /\ error' = [kind |-> "EmptyMax", name |-> ""]
            /\ result' = result
            /\ cand_input_name' = cand_input_name
       ELSE /\ result' \in AssignFrom(1, requirements, candidates,
                                      max_versions, selected_revs)
            /\ cand_input_name' = WithInputNames(cand_input_name, result')
            /\ error' = error
    /\ pc' = "done"
    /\ UNCHANGED << catalog, revDate, requirements, version_rows, gac_max,
                    candidates, max_versions, optimal_revs, uncovered,
                    selected_revs >>
    /\ UNCHANGED outer

\* ------------------------------------------------------------------------
\* get_all_candidates
\* ------------------------------------------------------------------------
\* no row for a (package, revision)
NoRow == [pfx |-> "none", rel |-> <<>>]

\* the packages table holding, per (package, revision), f's version string
CatalogFrom(f, names, revs) ==
    { row \in { [package |-> n, version |-> f[<< n, r >>], rev |-> r] :
                  n \in names, r \in revs } : row.version # NoRow }

\* req_by_name = {req.name: req for req in requirements}: the last one wins
ReqByName(reqs, name) ==
    reqs[CHOOSE i \in 1..Len(reqs) :
            /\ reqs[i].name = name
            /\ \A j \in 1..Len(reqs) : reqs[j].name = name => j <= i]

\* select distinct package, version from packages where package = any(names)
DistinctVersions(cat, names) ==
    { [package |-> row.package, version |-> row.version] :
        row \in { r \in cat : r.package \in names } }

RECURSIVE ScanVersionRowsUnfiltered(_, _, _)
\* the specifier test left out
ScanVersionRowsUnfiltered(order, reqs, maxv) ==
    IF order = <<>> THEN maxv
    ELSE LET pkg_name == Head(order).package
             version == ParseVersion(Head(order).version)
             take == \/ pkg_name \notin DOMAIN maxv
                     \/ VersionGT(version, maxv[pkg_name])
         IN  ScanVersionRowsUnfiltered(Tail(order), reqs,
                 IF take
                 THEN [ n \in DOMAIN maxv \cup { pkg_name } |->
                          IF n = pkg_name THEN version ELSE maxv[n] ]
                 ELSE maxv)

RECURSIVE ScanVersionRows(_, _, _)
\* for pkg_name, ver_str in version_rows: keep the first greatest version
\* that is in the specifier
ScanVersionRows(order, reqs, maxv) ==
    IF order = <<>> THEN maxv
    ELSE LET pkg_name == Head(order).package
             version == ParseVersion(Head(order).version)
             req == ReqByName(reqs, pkg_name)
             take == /\ InSpecifier(version, req.spec)
                     /\ \/ pkg_name \notin DOMAIN maxv
                        \/ VersionGT(version, maxv[pkg_name])
         IN  ScanVersionRows(Tail(order), reqs,
                 IF take
                 THEN [ n \in DOMAIN maxv \cup { pkg_name } |->
                          IF n = pkg_name THEN version ELSE maxv[n] ]
                 ELSE maxv)

\* the rows of the second query: package = name AND version = str(max_ver),
\* joined with revs
MaxVersionRows(cat, maxv) ==
    { row \in cat :
        /\ row.package \in DOMAIN maxv
        /\ row.version = StrVersion(maxv[row.package]) }

\* candidates[pkg_name].append(Package(name, Version(ver_str), NixpkgsRev))
BuildCandidates(reqs, rows) ==
    [ name \in ReqNames(reqs) |->
        { [name |-> row.package, version |-> ParseVersion(row.version),
           rev |-> row.rev] : row \in { r \in rows : r.package = name } } ]

\* lines 64-82: connect and run the first query, or fail to connect
FirstQuery ==
    /\ pc = "start"
    /\ \/ /\ version_rows' = DistinctVersions(catalog, ReqNames(requirements))
          /\ pc' = "versions"
          /\ error' = error
       \/ /\ error' = [kind |-> "ConnectionFailure", name |-> ""]
          /\ pc' = "done"
          /\ version_rows' = version_rows
    /\ UNCHANGED << catalog, revDate, requirements, gac_max, candidates,
                    max_versions, optimal_revs, uncovered, selected_revs,
                    result >>
    /\ UNCHANGED outer
    /\ UNCHANGED cand_input_name

\* no row stops the scan
UnparsableRowsSkipped(rows) == {}

\* line 86: the rows on which Version(ver_str) raises InvalidVersion
UnparsableRows(rows) == { row \in rows : ~IsValidVersion(row.version) }

\* lines 84-95: the maximum version per package, in the order the rows came
ScanVersions ==
    /\ pc = "versions"
    /\ IF UnparsableRows(version_rows) # {}
       THEN /\ error' = [kind |-> "InvalidVersion", name |-> ""]
            /\ pc' = "done"
            /\ UNCHANGED << gac_max, candidates >>
       ELSE \E order \in Perms(version_rows) :
              LET maxv == ScanVersionRows(order, requirements, <<>>)
              IN  /\ gac_max' = maxv
                  /\ error' = error
                  /\ IF DOMAIN maxv = {}
                     THEN /\ candidates' =
                                [ name \in ReqNames(requirements) |-> {} ]
                          /\ pc' = "select"
                     ELSE /\ candidates' = candidates
                          /\ pc' = "rows"
    /\ UNCHANGED << catalog, revDate, requirements, version_rows,
                    max_versions, optimal_revs, uncovered, selected_revs,
                    result >>
    /\ UNCHANGED outer
    /\ UNCHANGED cand_input_name

\* lines 97-126: the second query and the candidates built from its rows
SecondQuery ==
    /\ pc = "rows"
    /\ candidates' = BuildCandidates(requirements,
                                     MaxVersionRows(catalog, gac_max))
    /\ pc' = "select"
    /\ UNCHANGED << catalog, revDate, requirements, version_rows, gac_max,
                    max_versions, optimal_revs, uncovered, selected_revs,
                    result, error >>
    /\ UNCHANGED outer
    /\ UNCHANGED cand_input_name

\* ------------------------------------------------------------------------
\* packages_from_string: get_all_candidates, then select_optimal_packages
\* ------------------------------------------------------------------------
Names == { "a", "b" }
Revs == { "R1", "R2" }
VersionStrings == { [pfx |-> "", rel |-> << 9, 0 >>],
                    [pfx |-> "", rel |-> << 10, 0 >>],
                    [pfx |-> "v", rel |-> << 10, 0 >>],
                    [pfx |-> "", rel |-> <<>>] }
Specs == { AnySpec, [op |-> "lt", ver |-> << 10 >>] }

Init ==
    /\ \E f \in [ Names \X Revs -> VersionStrings \cup { NoRow } ] :
         catalog = CatalogFrom(f, Names, Revs)
    /\ revDate \in [ Revs -> 1..MaxDate ]
    /\ requirements \in ReqLists(Names, Specs, MaxReqs)
    /\ pc = "start"
    /\ version_rows = {}
    /\ gac_max = <<>>
    /\ candidates = <<>>
    /\ max_versions = <<>>
    /\ optimal_revs = <<>>
    /\ uncovered = {}
    /\ selected_revs = <<>>
    /\ result = <<>>
    /\ error = NoError
    /\ request = NoRequest
    /\ response = NoResponse
    /\ rev_pair = <<>>
    /\ rev_set = {}
    /\ packages = <<>>
    /\ flake_nix = NoFlake
    /\ flake_lock = NoFlake
    /\ cand_input_name = <<>>

Next ==
    \/ FirstQuery
    \/ ScanVersions
    \/ SecondQuery
    \/ SelectMaxVersions
    \/ GreedyIteration
    \/ AssignPackages

Spec == Init /\ [][Next]_vars

\* ------------------------------------------------------------------------
\* get_package: the single-requirement path
\* ------------------------------------------------------------------------
RECURSIVE FirstMax(_, _)
\* max(matching): the first greatest version in the order of the list
FirstMax(order, best) ==
    IF order = <<>> THEN best
    ELSE FirstMax(Tail(order),
                  IF VersionGT(Head(order), best) THEN Head(order) ELSE best)

\* matching = [Version(v[0]) for v in versions if Version(v[0]) in specifier]
MatchingVersions(rows, spec) ==
    { v \in { ParseVersion(row.version) : row \in rows } :
        InSpecifier(v, spec) }

\* the rows of the second query before "order by revs.date desc limit 1"
TargetRows(cat, name, target) ==
    { row \in cat : row.package = name /\ row.version = target }

\* order by revs.date desc limit 1: the rows that may come first
NewestRows(rows) ==
    { row \in rows : \A other \in rows : revDate[other.rev] <= revDate[row.rev] }

\* lines 226-255: what get_package may return from the rows of its first
\* query, over the orders of those rows: << >> for None, else the package
GetPackageResults(cat, rows, req) ==
    LET matching == MatchingVersions(rows, req.spec)
    IN  IF matching = {}
        THEN { <<>> }
        ELSE UNION {
               LET target_version ==
                       StrVersion(FirstMax(Tail(order), Head(order)))
                   target_rows == TargetRows(cat, req.name, target_version)
               IN  IF target_rows = {}
                   THEN { <<>> }
                   ELSE { << [name |-> req.name,
                              version |-> ParseVersion(row.version),
                              rev |-> row.rev,
                              input_name |-> None] >> :
                            row \in NewestRows(target_rows) } :
               order \in Perms(matching) }

\* lines 209-224: connect and run the first query, or fail to connect
GetPackageVersions ==
    /\ pc = "gp_start"
    /\ \/ /\ version_rows' =
                DistinctVersions(catalog, { requirements[1].name })
          /\ pc' = "gp_versions"
          /\ error' = error
       \/ /\ error' = [kind |-> "ConnectionFailure", name |-> ""]
          /\ pc' = "done"
          /\ version_rows' = version_rows
    /\ UNCHANGED << catalog, revDate, requirements, gac_max, candidates,
                    max_versions, optimal_revs, uncovered, selected_revs,
                    result >>
    /\ UNCHANGED outer
    /\ UNCHANGED cand_input_name

\* lines 226-255: the target version, the second query, the package or None
\* (None is the empty result without an error)
GetPackageRow ==
    /\ pc = "gp_versions"
    /\ pc' = "done"
    /\ IF \E row \in version_rows : ~IsValidVersion(row.version)
       THEN /\ error' = [kind |-> "InvalidVersion", name |-> ""]
            /\ result' = result
       ELSE /\ error' = error
            /\ result' \in GetPackageResults(catalog, version_rows,
                                              requirements[1])
    /\ UNCHANGED << catalog, revDate, requirements, version_rows, gac_max,
                    candidates, max_versions, optimal_revs, uncovered,
                    selected_revs >>
    /\ UNCHANGED outer
    /\ UNCHANGED cand_input_name

PkgName == "a"
PkgRevs == { "R1", "R2", "R3" }
PkgVersionStrings ==
    { [pfx |-> "", rel |-> << x, y >>] : x \in { 1, 9, 10, 11 },
                                         y \in { 0, 9, 10 } }
        \cup { [pfx |-> "v", rel |-> << 10, 0 >>], [pfx |-> "", rel |-> <<>>] }

InitPkg ==
    /\ \E f \in [ { PkgName } \X PkgRevs -> PkgVersionStrings \cup { NoRow } ] :
         catalog = CatalogFrom(f, { PkgName }, PkgRevs)
    /\ revDate \in [ PkgRevs -> 1..MaxDate ]
    /\ \E spec \in Specs : requirements = << [name |-> PkgName, spec |-> spec] >>
    /\ pc = "gp_start"
    /\ version_rows = {}
    /\ gac_max = <<>>
    /\ candidates = <<>>
    /\ max_versions = <<>>
    /\ optimal_revs = <<>>
    /\ uncovered = {}
    /\ selected_revs = <<>>
    /\ result = <<>>
    /\ error = NoError
    /\ request = NoRequest
    /\ response = NoResponse
    /\ rev_pair = <<>>
    /\ rev_set = {}
    /\ packages = <<>>
    /\ flake_nix = NoFlake
    /\ flake_lock = NoFlake
    /\ cand_input_name = <<>>

NextPkg == GetPackageVersions \/ GetPackageRow

SpecPkg == InitPkg /\ [][NextPkg]_vars

\* ------------------------------------------------------------------------
\* Direct calls of select_optimal_packages (as the unit tests make them):
\* the candidates are any lists, not filtered by the specifiers
\* ------------------------------------------------------------------------
SelNames == { "a", "b" }
SelRevs == { "R1", "R2" }
SelVersions == { << 9, 0 >>, << 10, 0 >> }
SelSpecs == { AnySpec, [op |-> "lt", ver |-> << 10 >>] }

\* no version recorded
Absent == <<>>

\* the candidate lists that hold, per (name, rev), f's version if any
CandidatesFrom(f, names, revs) ==
    [ name \in names |->
        { [name |-> name, version |-> f[<< name, r >>], rev |-> r] :
            r \in { q \in revs : f[<< name, q >>] # Absent } } ]

InitSelect ==
    /\ catalog = {}
    /\ revDate \in [ SelRevs -> 1..MaxDate ]
    /\ requirements \in ReqLists(SelNames, SelSpecs, MaxReqs)
    /\ pc = "select"
    /\ version_rows = {}
    /\ gac_max = <<>>
    /\ \E f \in [ SelNames \X SelRevs -> SelVersions \cup {Absent} ] :
         candidates = CandidatesFrom(f, SelNames, SelRevs)
    /\ max_versions = <<>>
    /\ optimal_revs = <<>>
    /\ uncovered = {}
    /\ selected_revs = <<>>
    /\ result = <<>>
    /\ error = NoError
    /\ request = NoRequest
    /\ response = NoResponse
    /\ rev_pair = <<>>
    /\ rev_set = {}
    /\ packages = <<>>
    /\ flake_nix = NoFlake
    /\ flake_lock = NoFlake
    /\ cand_input_name = <<>>

NextSelect == SelectMaxVersions \/ GreedyIteration \/ AssignPackages

SpecSelect == InitSelect /\ [][NextSelect]_vars

\* ------------------------------------------------------------------------
\* Direct calls with up to four packages of one version over three revisions
\* ------------------------------------------------------------------------
CovNames == << "a", "b", "c", "d" >>
CovRevs == { "R1", "R2", "R3" }
CovVersion == << 1, 0 >>

\* the first k names, each without a specifier
CovReqs(k) == [ i \in 1..k |-> [name |-> CovNames[i], spec |-> AnySpec] ]

InitCover ==
    /\ catalog = {}
    /\ revDate \in [ CovRevs -> 1..MaxDate ]
    /\ pc = "select"
    /\ version_rows = {}
    /\ gac_max = <<>>
    /\ \E k \in 1..Len(CovNames) :
         /\ requirements = CovReqs(k)
         /\ \E f \in [ ReqNames(CovReqs(k)) \X CovRevs
                         -> { CovVersion, Absent } ] :
              candidates = CandidatesFrom(f, ReqNames(CovReqs(k)), CovRevs)
    /\ max_versions = <<>>
    /\ optimal_revs = <<>>
    /\ uncovered = {}
    /\ selected_revs = <<>>
    /\ result = <<>>
    /\ error = NoError
    /\ request = NoRequest
    /\ response = NoResponse
    /\ rev_pair = <<>>
    /\ rev_set = {}
    /\ packages = <<>>
    /\ flake_nix = NoFlake
    /\ flake_lock = NoFlake
    /\ cand_input_name = <<>>

SpecCover == InitCover /\ [][NextSelect]_vars

\* ------------------------------------------------------------------------
\* The three-package scenario of test_uses_minimum_revisions, for every
\* order of the request and every choice of dates (one more date than
\* elsewhere, so that the three revisions take every order)
\* ------------------------------------------------------------------------
ScenarioCandidates ==
    [ name \in { "a", "b", "c" } |->
        { [name |-> name, version |-> CovVersion, rev |-> r] :
            r \in (CASE name = "a" -> { "R1" }
                     [] name = "b" -> { "R2" }
                     [] name = "c" -> { "R1", "R2", "R3" }) } ]

InitScenario ==
    /\ catalog = {}
    /\ revDate \in [ CovRevs -> 1..(MaxDate + 1) ]
    /\ pc = "select"
    /\ version_rows = {}
    /\ gac_max = <<>>
    /\ \E o \in Perms({ "a", "b", "c" }) :
         requirements = [ i \in 1..3 |-> [name |-> o[i], spec |-> AnySpec] ]
    /\ candidates = ScenarioCandidates
    /\ max_versions = <<>>
    /\ optimal_revs = <<>>
    /\ uncovered = {}
    /\ selected_revs = <<>>
    /\ result = <<>>
    /\ error = NoError
    /\ request = NoRequest
    /\ response = NoResponse
    /\ rev_pair = <<>>
    /\ rev_set = {}
    /\ packages = <<>>
    /\ flake_nix = NoFlake
    /\ flake_lock = NoFlake
    /\ cand_input_name = <<>>

SpecScenario == InitScenario /\ [][NextSelect]_vars

\* ------------------------------------------------------------------------
\* Properties of select_optimal_packages
\* ------------------------------------------------------------------------
Returned == pc = "done" /\ error = NoError

\* the versions of the candidates supplied for requirement i
SuppliedVersions(i) ==
    { p.version : p \in CandidatesOf(candidates, requirements[i].name) }

\* the supplied versions that satisfy requirement i's specifier
SatisfyingVersions(i) ==
    { v \in SuppliedVersions(i) : InSpecifier(v, requirements[i].spec) }

\* rev carries the greatest candidate version of name
CarriesMax(rev, name) ==
    \E p \in CandidatesOf(candidates, name) :
        /\ p.rev = rev
        /\ \A q \in CandidatesOf(candidates, name) :
               ~VersionGT(q.version, p.version)

\* S holds, for every requested package, a revision carrying its maximum
Covers(S) ==
    \A name \in ReqNames(requirements) : \E r \in S : CarriesMax(r, name)

CandidateRevs ==
    { p.rev : p \in UNION { CandidatesOf(candidates, name) :
                              name \in ReqNames(requirements) } }

InputNames == { result[i].input_name : i \in 1..Len(result) }

\* C2 as stated: on candidates not filtered by the specifier, each returned
\* version is the maximum of the candidate versions that satisfy the
\* requirement's specifier.
C2_MaxAmongSatisfying ==
    Returned =>
        \A i \in 1..Len(requirements) :
            SatisfyingVersions(i) # {} =>
                /\ result[i].version \in SatisfyingVersions(i)
                /\ \A v \in SatisfyingVersions(i) :
                       ~VersionGT(v, result[i].version)

\* C2 amended: select_optimal_packages does not consult the specifier; each
\* returned version is the maximum of all the candidate versions supplied
\* for the requirement, whether or not they satisfy it.
C2_MaxAmongSupplied ==
    Returned =>
        \A i \in 1..Len(requirements) :
            /\ result[i].version \in SuppliedVersions(i)
            /\ \A v \in SuppliedVersions(i) :
                   ~VersionGT(v, result[i].version)

\* a call that returned a version violating the specifier although a
\* supplied version satisfied it
C2_Witness ==
    /\ Returned
    /\ \E i \in 1..Len(requirements) :
           /\ SatisfyingVersions(i) # {}
           /\ ~InSpecifier(result[i].version, requirements[i].spec)

\* C3: each returned (name, version, revision) is one of the candidate
\* entries supplied for its requirement, and its version is the greatest
\* version among those candidates.
C3_ResultIsMaxCandidate ==
    Returned =>
        \A i \in 1..Len(requirements) :
            /\ [name |-> result[i].name, version |-> result[i].version,
                rev |-> result[i].rev]
                   \in CandidatesOf(candidates, requirements[i].name)
            /\ CarriesMax(result[i].rev, requirements[i].name)
            /\ \A p \in CandidatesOf(candidates, requirements[i].name) :
                   ~VersionGT(p.version, result[i].version)

\* a returned package that had a lower version in another selected revision
\* of a newer date
C3_Witness ==
    /\ Returned
    /\ \E i \in 1..Len(requirements) :
           \E p \in CandidatesOf(candidates, requirements[i].name) :
               /\ VersionGT(result[i].version, p.version)
               /\ p.rev \in Range(selected_revs)
               /\ revDate[p.rev] > revDate[result[i].rev]

C6_SelectedAtMostRequirements ==
    Len(selected_revs) <= Len(requirements)

\* the loop ended with as many revisions as requirements
C6_Witness ==
    /\ pc = "assign"
    /\ Len(requirements) = 2
    /\ Len(selected_revs) = 2

\* C7: when some revision carries the maximum version of every requested
\* package, the call returns, exactly one revision is selected and all the
\* returned packages have the same input name.
C7_OneRevisionWhenOneSuffices ==
    (pc = "done" /\ \E r \in CandidateRevs : Covers({ r })) =>
        /\ error = NoError
        /\ Len(selected_revs) = 1
        /\ Cardinality(InputNames) = 1

\* four packages, all in one revision that is older than another revision
\* carrying some of them
C7_Witness ==
    /\ Returned
    /\ Len(requirements) = 4
    /\ Len(selected_revs) = 1
    /\ \E r \in CandidateRevs :
           /\ revDate[r] > revDate[selected_revs[1]]
           /\ ~Covers({ r })

\* C8: in the scenario (a only in R1, b only in R2, c in R1, R2 and R3),
\* for every choice of dates exactly R1 and R2 are selected, the result has
\* exactly two input names and c is assigned to R1 or R2.
C8_ScenarioSelectsR1R2 ==
    /\ pc \in { "assign", "done" } =>
           /\ Len(selected_revs) = 2
           /\ Range(selected_revs) = { "R1", "R2" }
    /\ pc = "done" =>
           /\ error = NoError
           /\ Cardinality(InputNames) = 2
           /\ \A i \in 1..Len(result) :
                  result[i].name = "c" => result[i].rev \in { "R1", "R2" }

\* the scenario with R3 the newest revision
C8_Witness ==
    /\ Returned
    /\ revDate["R3"] > revDate["R1"]
    /\ revDate["R3"] > revDate["R2"]
    /\ Len(result) = 3

\* some package name appears twice in the request
HasDuplicate ==
    \E i, j \in 1..Len(requirements) :
        i # j /\ requirements[i].name = requirements[j].name

\* C9: a request that names a package twice fails with the duplicate error
\* naming that package, before any resolution, and returns no result.
C9_DuplicateRejected ==
    (HasDuplicate /\ pc # "select") =>
        /\ pc = "done"
        /\ error.kind = "DuplicatePackage"
        /\ \E i, j \in 1..Len(requirements) :
               i # j /\ requirements[i].name = requirements[j].name
                     /\ error.name = requirements[i].name
        /\ result = <<>>

\* ------------------------------------------------------------------------
\* Properties of packages_from_string
\* ------------------------------------------------------------------------
\* the versions recorded in the catalog for a package
RecordedVersions(name) ==
    { ParseVersion(row.version) :
        row \in { r \in catalog :
                    r.package = name /\ IsValidVersion(r.version) } }

\* the recorded versions of requirement i's package that satisfy its own
\* specifier
RecordedSatisfying(i) ==
    { v \in RecordedVersions(requirements[i].name) :
        InSpecifier(v, requirements[i].spec) }

\* C1: end to end, each returned version is the greatest, in version order,
\* of the versions recorded for the requirement's package that satisfy the
\* requirement's specifier.
C1_ResultIsMaxSatisfying ==
    Returned =>
        \A i \in 1..Len(requirements) :
            /\ \E v \in RecordedSatisfying(i) :
                   VersionEQ(v, result[i].version)
            /\ \A v \in RecordedSatisfying(i) :
                   ~VersionGT(v, result[i].version)

Unresolvable(i) ==
    \A v \in RecordedVersions(requirements[i].name) :
        ~InSpecifier(v, ReqByName(requirements, requirements[i].name).spec)

NumericGE(v, w) == v[1] > w[1] \/ (v[1] = w[1] /\ v[2] >= w[2])

\* the version strings recorded for the package of get_package
RecordedStrings == { row.version : row \in catalog }

Plain(x, y) == [pfx |-> "", rel |-> << x, y >>]

\* C4: the maximum is taken in numeric, component-wise order, never in
\* string order: from 9.0, 10.0, 11.0 the package returned has 11.0, from
\* 1.9, 1.10 it has 1.10, and whatever dotted versions are recorded the
\* version returned is a recorded one that satisfies the specifier and is
\* numerically at least every other such version.
C4_SemanticMaximum ==
    (pc = "done" /\ error = NoError /\ result # <<>>) =>
        /\ result[1].version \in RecordedSatisfying(1)
        /\ \A v \in RecordedSatisfying(1) : NumericGE(result[1].version, v)
        /\ (/\ RecordedStrings = { Plain(9, 0), Plain(10, 0), Plain(11, 0) }
            /\ requirements[1].spec = AnySpec)
               => result[1].version = << 11, 0 >>
        /\ (/\ RecordedStrings = { Plain(1, 9), Plain(1, 10) }
            /\ requirements[1].spec = AnySpec)
               => result[1].version = << 1, 10 >>

\* 9.0, 10.0 and 11.0 recorded, and 11.0 returned
C4_Witness ==
    /\ pc = "done"
    /\ error = NoError
    /\ RecordedStrings = { Plain(9, 0), Plain(10, 0), Plain(11, 0) }
    /\ result # <<>>
    /\ result[1].version = << 11, 0 >>

\* ------------------------------------------------------------------------
\* main.py: the endpoints /flake/{packages} and /{packages} (tarball)
\* ------------------------------------------------------------------------
MAX_PACKAGES == 50

\* Requirement(p): the name and the specifier of a well-formed part
\* (an ill-formed part raises InvalidRequirement, a ValueError)
Requirement(part) == [name |-> part.name, spec |-> part.spec]

\* str(e) of the exception raised
ErrorDetail(err) ==
    CASE err.kind = "VersionNotFound" ->
             [text |-> "Version not found for package", name |-> err.name]
      [] err.kind = "InvalidRequirement" ->
             [text |-> "Invalid requirement", name |-> ""]
      [] err.kind = "InvalidVersion" ->
             [text |-> "Invalid version", name |-> ""]
      [] OTHER -> [text |-> err.kind, name |-> ""]

\* the limit tested with >= : a request of MAX_PACKAGES parts is refused
TooManyFromLimit(parts) == Len(parts) >= MAX_PACKAGES

\* len(parts) > MAX_PACKAGES
TooMany(parts) == Len(parts) > MAX_PACKAGES

\* a connection failure answered like a missing package
PackagesStatusAllNotFound(err) ==
    IF err = NoError THEN 200 ELSE 404

\* the status of the except clauses of flake and tarball
PackagesStatus(err) ==
    CASE err = NoError -> 200
      [] err.kind = "ConnectionFailure" -> 503
      [] OTHER -> 404

\* flake lines 735-739, tarball lines 816-820: split and count the parts
PackagesEndpoint ==
    /\ pc = "http"
    /\ request.endpoint \in { "flake", "tarball" }
    /\ IF TooMany(request.parts)
       THEN /\ response' = [status |-> 400,
                            detail |-> [text |-> "Too many packages (max 50)",
                                        name |-> ""],
                            body |-> <<>>]
            /\ pc' = "responded"
       ELSE /\ response' = response
            /\ pc' = "parse"
    /\ UNCHANGED << catalog, revDate, requirements, version_rows, gac_max,
                    candidates, max_versions, optimal_revs, uncovered,
                    selected_revs, result, error, request, rev_pair, rev_set,
                    packages, flake_nix, flake_lock >>
    /\ UNCHANGED cand_input_name

\* actual_logic.py line 51: requirements = [Requirement(p) for p in ...]
ParseRequirements ==
    /\ pc = "parse"
    /\ IF \E i \in 1..Len(request.parts) : ~request.parts[i].valid
       THEN /\ error' = [kind |-> "InvalidRequirement", name |-> ""]
            /\ pc' = "done"
            /\ requirements' = requirements
       ELSE /\ requirements' = [ i \in 1..Len(request.parts) |->
                                   Requirement(request.parts[i]) ]
            /\ pc' = "start"
            /\ error' = error
    /\ UNCHANGED << catalog, revDate, version_rows, gac_max, candidates,
                    max_versions, optimal_revs, uncovered, selected_revs,
                    result >>
    /\ UNCHANGED outer
    /\ UNCHANGED cand_input_name

\* flake lines 741-748, tarball lines 822-833: the except clauses and the
\* response built from packages_list
PackagesRespond ==
    /\ pc = "done"
    /\ request.endpoint \in { "flake", "tarball" }
    /\ response' = [status |-> PackagesStatus(error),
                    detail |-> CASE error = NoError -> NoDetail
                                 [] error.kind = "ConnectionFailure" ->
                                      [text |-> "Database unavailable",
                                       name |-> ""]
                                 [] OTHER -> ErrorDetail(error),
                    body |-> result]
    /\ pc' = "responded"
    /\ UNCHANGED << catalog, revDate, requirements, version_rows, gac_max,
                    candidates, max_versions, optimal_revs, uncovered,
                    selected_revs, result, error, request, rev_pair, rev_set,
                    packages, flake_nix, flake_lock >>
    /\ UNCHANGED cand_input_name

\* the parts of a path: plain names, a name with a specifier, and a part
\* that Requirement() rejects
HttpParts ==
    { [valid |-> TRUE, name |-> "a", spec |-> AnySpec],
      [valid |-> TRUE, name |-> "b", spec |-> AnySpec],
      [valid |-> TRUE, name |-> "b", spec |-> [op |-> "lt", ver |-> << 10 >>]],
      [valid |-> FALSE, name |-> "", spec |-> AnySpec] }

\* the paths requested: up to MaxReqs parts, and one part repeated up to
\* and just over the limit
HttpPaths ==
    UNION { [ 1..k -> HttpParts ] : k \in 1..MaxReqs }
      \cup { [ i \in 1..n |-> part ] :
               part \in HttpParts, n \in { MAX_PACKAGES, MAX_PACKAGES + 1 } }

HttpVersionStrings == { [pfx |-> "", rel |-> << 9, 0 >>],
                        [pfx |-> "", rel |-> << 10, 0 >>],
                        [pfx |-> "", rel |-> <<>>] }

InitPackagesHttp ==
    /\ \E f \in [ Names \X Revs -> HttpVersionStrings \cup { NoRow } ] :
         catalog = CatalogFrom(f, Names, Revs)
    /\ revDate \in [ Revs -> 1..MaxDate ]
    /\ requirements = <<>>
    /\ pc = "http"
    /\ version_rows = {}
    /\ gac_max = <<>>
    /\ candidates = <<>>
    /\ max_versions = <<>>
    /\ optimal_revs = <<>>
    /\ uncovered = {}
    /\ selected_revs = <<>>
    /\ result = <<>>
    /\ error = NoError
    /\ request \in [ endpoint : { "flake", "tarball" }, parts : HttpPaths ]
    /\ response = NoResponse
    /\ rev_pair = <<>>
    /\ rev_set = {}
    /\ packages = <<>>
    /\ flake_nix = NoFlake
    /\ flake_lock = NoFlake
    /\ cand_input_name = <<>>

NextPackagesHttp ==
    \/ PackagesEndpoint
    \/ ParseRequirements
    \/ FirstQuery
    \/ ScanVersions
    \/ SecondQuery
    \/ SelectMaxVersions
    \/ GreedyIteration
    \/ AssignPackages
    \/ PackagesRespond

SpecPackagesHttp == InitPackagesHttp /\ [][NextPackagesHttp]_vars

\* ------------------------------------------------------------------------
\* Properties of the error paths
\* ------------------------------------------------------------------------
\* C11: when some requirement has an empty or missing candidate list,
\* select_optimal_packages fails with "Version not found for package <name>"
\* where <name> is the first such requirement in request order, and no
\* result is returned for the other requirements.
C11_FirstMissingNamed ==
    (pc # "select" /\ MissingAt(requirements, candidates) # {}) =>
        /\ pc = "done"
        /\ error.kind = "VersionNotFound"
        /\ \E i \in MissingAt(requirements, candidates) :
              /\ error.name = requirements[i].name
              /\ \A j \in 1..(i - 1) :
                    CandidatesOf(candidates, requirements[j].name) # {}
        /\ result = <<>>
        /\ selected_revs = <<>>

\* two requirements of different names lack candidates and the call has
\* failed
C11_Witness ==
    /\ pc = "done"
    /\ error.kind = "VersionNotFound"
    /\ Len(requirements) = 2
    /\ requirements[1].name # requirements[2].name
    /\ MissingAt(requirements, candidates) = { 1, 2 }

\* the request passed the count check and was parsed
Parsed == Len(requirements) = Len(request.parts) /\ Len(requirements) > 0

\* C12: on /flake and the tarball endpoint a catalog connection failure is
\* answered 503 "Database unavailable" and nothing else is, and a request
\* with a package that has no recorded version satisfying its specifier is
\* answered 404 whenever the catalog could be read; a connection failure is
\* never answered 404 or 200.
C12_UnavailableNotConflated ==
    pc = "responded" =>
        /\ error.kind = "ConnectionFailure" <=> response.status = 503
        /\ response.status = 503 =>
              response.detail.text = "Database unavailable"
        /\ ( /\ error.kind # "ConnectionFailure"
             /\ Parsed
             /\ \E i \in 1..Len(requirements) : RecordedSatisfying(i) = {} )
              => response.status = 404

\* the same for the requests that name no package twice
C12_DistinctNamesNotConflated ==
    ~HasDuplicate => C12_UnavailableNotConflated

\* a request for a package without any recorded version, answered 503
\* because the catalog could not be reached
C12_Witness503 ==
    /\ pc = "responded"
    /\ response.status = 503
    /\ Parsed
    /\ \E i \in 1..Len(requirements) :
          RecordedVersions(requirements[i].name) = {}

\* ------------------------------------------------------------------------
\* Requests for an ambiguous package name
\* ------------------------------------------------------------------------
\* the names the tests expect to be ambiguous, with their alternatives
AMBIGUOUS_PACKAGES == [ name \in { "python" } |-> { "python2", "python3" } ]

AmbNames == { "python", "python3" }
AmbVersionStrings == { [pfx |-> "", rel |-> << 3, 11 >>] }
AmbSpecs == { AnySpec, [op |-> "ge", ver |-> << 3, 0 >>] }

InitAmbiguous ==
    /\ \E f \in [ AmbNames \X Revs -> AmbVersionStrings \cup { NoRow } ] :
         catalog = CatalogFrom(f, AmbNames, Revs)
    /\ revDate \in [ Revs -> 1..MaxDate ]
    /\ requirements \in ReqLists(AmbNames, AmbSpecs, MaxReqs)
    /\ pc = "start"
    /\ version_rows = {}
    /\ gac_max = <<>>
    /\ candidates = <<>>
    /\ max_versions = <<>>
    /\ optimal_revs = <<>>
    /\ uncovered = {}
    /\ selected_revs = <<>>
    /\ result = <<>>
    /\ error = NoError
    /\ request = NoRequest
    /\ response = NoResponse
    /\ rev_pair = <<>>
    /\ rev_set = {}
    /\ packages = <<>>
    /\ flake_nix = NoFlake
    /\ flake_lock = NoFlake
    /\ cand_input_name = <<>>

SpecAmbiguous == InitAmbiguous /\ [][Next]_vars

\* some requirement names an ambiguous package
HasAmbiguous ==
    \E i \in 1..Len(requirements) :
        requirements[i].name \in DOMAIN AMBIGUOUS_PACKAGES

\* C13: a request with an ambiguous name (python, with or without a
\* specifier) fails with the "Ambiguous package" error naming that package,
\* whose alternatives are python2 and python3, before the catalog is read;
\* a request without such a name never fails with that error.
C13_AmbiguousRejected ==
    /\ (HasAmbiguous /\ pc # "start") =>
          /\ pc = "done"
          /\ error.kind = "AmbiguousPackage"
          /\ error.name \in DOMAIN AMBIGUOUS_PACKAGES
          /\ AMBIGUOUS_PACKAGES[error.name] = { "python2", "python3" }
          /\ version_rows = {}
          /\ result = <<>>
    /\ ~HasAmbiguous => error.kind # "AmbiguousPackage"

\* the request "python" resolved to a recorded version of python
C13_PythonResolved ==
    /\ Returned
    /\ Len(requirements) = 1
    /\ requirements[1].name = "python"
    /\ result[1].name = "python"

\* ------------------------------------------------------------------------
\* NixpkgsRev: the frozen dataclass with fields rev, hash, date
\* ------------------------------------------------------------------------
\* the __eq__ that @dataclass generates: the tuples of all fields compared
NixpkgsRev_eq(r1, r2) ==
    << r1.rev, r1.hash, r1.date >> = << r2.rev, r2.hash, r2.date >>

\* __hash__: hash(self.rev), equal for equal identifiers
NixpkgsRev_hash(r) == r.rev

\* __gt__: self.date > other.date
NixpkgsRev_gt(r1, r2) == r1.date > r2.date

\* adding x to a Python set: kept out when an element with the same hash
\* compares equal to it
SetAdd(S, x) ==
    IF \E y \in S : NixpkgsRev_hash(y) = NixpkgsRev_hash(x)
                       /\ NixpkgsRev_eq(y, x)
    THEN S ELSE S \cup { x }

\* s = {rev1, rev2}
BuildSet ==
    /\ pc = "set"
    /\ rev_set' = SetAdd(SetAdd({}, rev_pair[1]), rev_pair[2])
    /\ pc' = "done"
    /\ UNCHANGED << catalog, revDate, requirements, version_rows, gac_max,
                    candidates, max_versions, optimal_revs, uncovered,
                    selected_revs, result, error, request, response, rev_pair,
                    packages, flake_nix, flake_lock >>
    /\ UNCHANGED cand_input_name

RevIds == { "abc123", "def456" }
RevHashes == { "sha256-xxx", "sha256-yyy" }
NixpkgsRevs == [ rev : RevIds, hash : RevHashes, date : 1..(MaxDate + 1) ]

InitRevs ==
    /\ catalog = {}
    /\ revDate = <<>>
    /\ requirements = <<>>
    /\ pc = "set"
    /\ version_rows = {}
    /\ gac_max = <<>>
    /\ candidates = <<>>
    /\ max_versions = <<>>
    /\ optimal_revs = <<>>
    /\ uncovered = {}
    /\ selected_revs = <<>>
    /\ result = <<>>
    /\ error = NoError
    /\ request = NoRequest
    /\ response = NoResponse
    /\ rev_pair \in NixpkgsRevs \X NixpkgsRevs
    /\ rev_set = {}
    /\ packages = <<>>
    /\ flake_nix = NoFlake
    /\ flake_lock = NoFlake
    /\ cand_input_name = <<>>

NextRevs == BuildSet

SpecRevs == InitRevs /\ [][NextRevs]_vars

\* C14: two NixpkgsRev values are equal exactly when their rev fields are
\* equal, whatever their hash and date; equal values have equal hashes, so a
\* set built from them holds one element per identifier; and r1 > r2 exactly
\* when r1.date > r2.date.
C14_EqualIffSameRev ==
    pc = "done" =>
        /\ NixpkgsRev_eq(rev_pair[1], rev_pair[2])
              <=> rev_pair[1].rev = rev_pair[2].rev
        /\ NixpkgsRev_eq(rev_pair[1], rev_pair[2])
              => NixpkgsRev_hash(rev_pair[1]) = NixpkgsRev_hash(rev_pair[2])
        /\ Cardinality(rev_set) = Cardinality({ r.rev : r \in rev_set })
        /\ NixpkgsRev_gt(rev_pair[1], rev_pair[2])
              <=> rev_pair[1].date > rev_pair[2].date

\* what does hold: equal values have the same rev and the same hash, the
\* set holds one element per distinct (rev, hash, date), the order is by date
C14_EqualImpliesSameRev ==
    pc = "done" =>
        /\ NixpkgsRev_eq(rev_pair[1], rev_pair[2])
              => /\ rev_pair[1].rev = rev_pair[2].rev
                 /\ NixpkgsRev_hash(rev_pair[1]) = NixpkgsRev_hash(rev_pair[2])
        /\ rev_set = { rev_pair[1], rev_pair[2] }
        /\ NixpkgsRev_gt(rev_pair[1], rev_pair[2])
              <=> rev_pair[1].date > rev_pair[2].date

\* ------------------------------------------------------------------------
\* Properties of get_package
\* ------------------------------------------------------------------------
\* the revisions recorded with a version equal to v for requirement 1's package
RevisionsWith(v) ==
    { row.rev : row \in { r \in catalog :
                            /\ r.package = requirements[1].name
                            /\ IsValidVersion(r.version)
                            /\ VersionEQ(ParseVersion(r.version), v) } }

\* C15: when get_package returns, it returns None exactly when no recorded
\* version of the package satisfies the specifier; otherwise the package
\* returned has the greatest satisfying recorded version, and its revision
\* has the largest date of all revisions recorded with that version.
C15_NoneIffNoSatisfying ==
    (pc = "done" /\ error = NoError) =>
        /\ result = <<>> <=> RecordedSatisfying(1) = {}
        /\ result # <<>> =>
              /\ result[1].version \in RecordedSatisfying(1)
              /\ \A v \in RecordedSatisfying(1) :
                    ~VersionGT(v, result[1].version)
              /\ result[1].rev \in RevisionsWith(result[1].version)
              /\ \A r \in RevisionsWith(result[1].version) :
                    revDate[r] <= revDate[result[1].rev]

\* every recorded version string is spelled as str(Version) spells it
NormalizedCatalog ==
    \A row \in catalog :
        IsValidVersion(row.version) /\ row.version.pfx = ""

\* the same for catalogs whose version strings are all in normalized form
C15_NormalizedNoneIffNoSatisfying ==
    NormalizedCatalog => C15_NoneIffNoSatisfying

\* None returned although the one recorded version satisfies the specifier
C15_NoneDespiteSatisfying ==
    /\ pc = "done"
    /\ error = NoError
    /\ result = <<>>
    /\ RecordedSatisfying(1) # {}

\* ------------------------------------------------------------------------
\* Properties of the endpoints
\* ------------------------------------------------------------------------
\* nothing was parsed, read from the catalog or resolved
Untouched ==
    /\ requirements = <<>>
    /\ version_rows = {}
    /\ candidates = <<>>
    /\ selected_revs = <<>>
    /\ result = <<>>
    /\ error = NoError

\* C16: on /flake and the tarball endpoint a request of more than
\* MAX_PACKAGES parts is answered 400 "Too many packages" with nothing
\* parsed, resolved or read from the catalog; a request of at most
\* MAX_PACKAGES parts is never answered 400, and one of exactly MAX_PACKAGES
\* well-formed parts is parsed into MAX_PACKAGES requirements and resolved.
C16_TooManyRejectedFirst ==
    /\ (Len(request.parts) > MAX_PACKAGES /\ pc # "http") =>
          /\ pc = "responded"
          /\ response.status = 400
          /\ response.detail.text = "Too many packages (max 50)"
          /\ Untouched
    /\ Len(request.parts) <= MAX_PACKAGES => response.status # 400
    /\ ( /\ Len(request.parts) = MAX_PACKAGES
         /\ \A i \in 1..Len(request.parts) : request.parts[i].valid
         /\ pc = "responded" )
          => /\ Len(requirements) = MAX_PACKAGES
             /\ error = NoError => ( /\ response.status = 200
                                     /\ Len(response.body) = MAX_PACKAGES )

\* a request of MAX_PACKAGES + 1 parts answered 400
C16_Witness ==
    /\ pc = "responded"
    /\ Len(request.parts) = MAX_PACKAGES + 1
    /\ response.status = 400

\* a request of exactly MAX_PACKAGES parts resolved and answered 200
C16_WitnessBoundary ==
    /\ pc = "responded"
    /\ Len(request.parts) = MAX_PACKAGES
    /\ response.status = 200
    /\ Len(response.body) = MAX_PACKAGES

\* ------------------------------------------------------------------------
\* get_flake_nix, get_flake_lock, get_tarball
\* a Package is [name, nixpkgs_rev, input_name], input_name being the field
\* _input_name (None when not set)
\* ------------------------------------------------------------------------
FlakeNames == { "python3", "nodejs" }

\* f"n-{self.name}"
DefaultInputName(name) ==
    CASE name = "python3" -> "n-python3"
      [] name = "nodejs" -> "n-nodejs"

\* the property input_name: self._input_name or f"n-{self.name}"
InputName(p) ==
    IF p.input_name = None \/ p.input_name = ""
    THEN DefaultInputName(p.name)
    ELSE p.input_name

RECURSIVE SeenInputsAll(_, _)
\* every package kept, whether or not its input name was seen
SeenInputsAll(pkgs, seen) ==
    IF pkgs = <<>> THEN seen
    ELSE SeenInputsAll(Tail(pkgs), Append(seen, Head(pkgs)))

RECURSIVE SeenInputs(_, _)
\* lines 262-265: seen_inputs, the first package of each input name, in
\* the order of insertion
SeenInputs(pkgs, seen) ==
    IF pkgs = <<>> THEN seen
    ELSE SeenInputs(Tail(pkgs),
                    IF \E i \in 1..Len(seen) :
                           InputName(seen[i]) = InputName(Head(pkgs))
                    THEN seen
                    ELSE Append(seen, Head(pkgs)))

\* lines 267-286: one url line per entry of seen_inputs, one output line
\* and one list element per package
FlakeNix(pkgs) ==
    LET seen == SeenInputs(pkgs, <<>>)
    IN  [inputs |-> [ i \in 1..Len(seen) |->
                        [input_name |-> InputName(seen[i]),
                         rev |-> seen[i].nixpkgs_rev.rev] ],
         outputs |-> [ i \in 1..Len(pkgs) |->
                         [name |-> pkgs[i].name,
                          input_name |-> InputName(pkgs[i])] ],
         list_elements |-> [ i \in 1..Len(pkgs) |->
                               [input_name |-> InputName(pkgs[i]),
                                name |-> pkgs[i].name] ]]

\* lines 327-349: the lock before the loop, with the nodes nixpkgs and root
FixedLock ==
    [nodes |->
       ("nixpkgs" :>
          [locked |-> [rev |-> "adaa24fbf46737f3f1b5497bf64bae750f82942e",
                       narHash |->
                         "sha256-qhFMmDkeJX9KJwr5H32f1r7Prs7XbQWtO0h3V0a0rFY=",
                       lastModified |-> 1747179050],
           original |-> [ref |-> "nixos-unstable"]])
       @@ ("root" :> [inputs |-> ("nixpkgs" :> "nixpkgs")]),
     root |-> "root",
     version |-> 7]

\* lines 358-374: lock["nodes"][name] = {...} and
\* lock["nodes"]["root"]["inputs"][name] = name
WithNode(lock, name, nixpkgs_rev) ==
    LET nodes == (name :> [locked |-> [rev |-> nixpkgs_rev.rev,
                                       narHash |-> nixpkgs_rev.hash,
                                       lastModified |-> nixpkgs_rev.date],
                           original |-> [rev |-> nixpkgs_rev.rev]])
                   @@ lock.nodes
    IN  [lock EXCEPT !.nodes =
           [nodes EXCEPT !["root"] =
              [inputs |-> (name :> name) @@ nodes["root"].inputs]]]

RECURSIVE LockLoop(_, _, _)
\* lines 352-374: a node and a root input per input name not yet seen
LockLoop(pkgs, seen, lock) ==
    IF pkgs = <<>> THEN lock
    ELSE LET package == Head(pkgs)
         IN  IF InputName(package) \in seen
             THEN LockLoop(Tail(pkgs), seen, lock)
             ELSE LockLoop(Tail(pkgs), seen \cup { InputName(package) },
                           WithNode(lock, InputName(package),
                                    package.nixpkgs_rev))

\* get_flake_lock
FlakeLock(pkgs) == LockLoop(pkgs, {}, FixedLock)

\* lines 379-381: get_tarball generates flake.nix and flake.lock
GetTarball ==
    /\ pc = "tarball"
    /\ flake_nix' = FlakeNix(packages)
    /\ flake_lock' = FlakeLock(packages)
    /\ pc' = "done"
    /\ UNCHANGED << catalog, revDate, requirements, version_rows, gac_max,
                    candidates, max_versions, optimal_revs, uncovered,
                    selected_revs, result, error, request, response, rev_pair,
                    rev_set, packages >>
    /\ UNCHANGED cand_input_name

\* the revisions and the input names of the tests, and the names that
\* select_optimal_packages gives
FlakeRevs == { [rev |-> "abc123", hash |-> "sha256-xxx", date |-> 1],
               [rev |-> "def456", hash |-> "sha256-yyy", date |-> 2] }
FlakeInputNames == { None, "n0", "n1", "nixpkgs-0", "nixpkgs-1" }
FlakePackages ==
    [ name : FlakeNames, nixpkgs_rev : FlakeRevs, input_name : FlakeInputNames ]

InitFlake ==
    /\ catalog = {}
    /\ revDate = <<>>
    /\ requirements = <<>>
    /\ pc = "tarball"
    /\ version_rows = {}
    /\ gac_max = <<>>
    /\ candidates = <<>>
    /\ max_versions = <<>>
    /\ optimal_revs = <<>>
    /\ uncovered = {}
    /\ selected_revs = <<>>
    /\ result = <<>>
    /\ error = NoError
    /\ request = NoRequest
    /\ response = NoResponse
    /\ rev_pair = <<>>
    /\ rev_set = {}
    /\ packages \in UNION { [ 1..k -> FlakePackages ] : k \in 1..(MaxReqs + 1) }
    /\ flake_nix = NoFlake
    /\ flake_lock = NoFlake
    /\ cand_input_name = <<>>

NextFlake == GetTarball

SpecFlake == InitFlake /\ [][NextFlake]_vars

\* the distinct input names of the packages given
DistinctInputNames == { InputName(packages[i]) : i \in 1..Len(packages) }

\* C17: however many packages share an input name, flake.nix has exactly
\* one url line per distinct input name, flake.lock has exactly one node and
\* one root input per distinct input name besides its fixed ones (nixpkgs,
\* root), and every package has its output line and its list element.
C17_InputsDeclaredOnce ==
    pc = "done" =>
        /\ \A n \in DistinctInputNames :
              Cardinality({ i \in 1..Len(flake_nix.inputs) :
                              flake_nix.inputs[i].input_name = n }) = 1
        /\ Len(flake_nix.inputs) = Cardinality(DistinctInputNames)
        /\ DOMAIN flake_lock.nodes =
              { "nixpkgs", "root" } \cup DistinctInputNames
        /\ Cardinality(DOMAIN flake_lock.nodes) =
              2 + Cardinality(DistinctInputNames)
        /\ DOMAIN flake_lock.nodes["root"].inputs =
              { "nixpkgs" } \cup DistinctInputNames
        /\ Len(flake_nix.outputs) = Len(packages)
        /\ Len(flake_nix.list_elements) = Len(packages)
        /\ \A i \in 1..Len(packages) :
              /\ flake_nix.outputs[i].name = packages[i].name
              /\ flake_nix.outputs[i].input_name = InputName(packages[i])
              /\ flake_nix.list_elements[i].name = packages[i].name
              /\ flake_nix.list_elements[i].input_name
                    = InputName(packages[i])

\* three packages, two of them sharing an input name, generated
C17_Witness ==
    /\ pc = "done"
    /\ Len(packages) = 3
    /\ InputName(packages[1]) = InputName(packages[3])
    /\ InputName(packages[1]) # InputName(packages[2])
    /\ packages[1].name # packages[3].name
    /\ Len(flake_nix.inputs) = 2

\* ------------------------------------------------------------------------
\* main.py: the endpoints /nixpkgs/{package} and /api/rev/{package}
\* ------------------------------------------------------------------------
\* the hash column of the revs table, one value per revision
HashOf(rev) == << "sha256", rev >>

\* f"https://github.com/NixOS/nixpkgs/archive/{pkg.nixpkgs_rev.rev}.tar.gz"
ArchiveUrl(rev) ==
    << "https://github.com/NixOS/nixpkgs/archive/", rev, ".tar.gz" >>

\* "if not pkg" tested before the exceptions are told apart
PackageStatusNotFoundFirst(err, res, endpoint) ==
    CASE res = <<>> -> 404
      [] err.kind = "ConnectionFailure" -> 503
      [] err # NoError -> 400
      [] endpoint = "nixpkgs" -> 301
      [] OTHER -> 200

\* the status of nixpkgs and rev after get_package: the except clauses,
\* "if not pkg", the response
PackageStatus(err, res, endpoint) ==
    CASE err.kind = "ConnectionFailure" -> 503
      [] err # NoError -> 400
      [] res = <<>> -> 404
      [] endpoint = "nixpkgs" -> 301
      [] OTHER -> 200

\* nixpkgs line 771, rev line 794: req = _parse_requirement(package)
PackageEndpoint ==
    /\ pc = "http"
    /\ request.endpoint \in { "nixpkgs", "rev" }
    /\ IF ~request.parts[1].valid
       THEN /\ response' = [status |-> 400,
                            detail |-> [text |-> "Invalid requirement",
                                        name |-> ""],
                            body |-> <<>>]
            /\ pc' = "responded"
            /\ requirements' = requirements
       ELSE /\ requirements' = << Requirement(request.parts[1]) >>
            /\ pc' = "gp_start"
            /\ response' = response
    /\ UNCHANGED << catalog, revDate, version_rows, gac_max, candidates,
                    max_versions, optimal_revs, uncovered, selected_revs,
                    result, error, request, rev_pair, rev_set, packages,
                    flake_nix, flake_lock >>
    /\ UNCHANGED cand_input_name

\* nixpkgs lines 772-785, rev lines 795-806
PackageRespond ==
    /\ pc = "done"
    /\ request.endpoint \in { "nixpkgs", "rev" }
    /\ LET status == PackageStatus(error, result, request.endpoint)
       IN  response' =
             [status |-> status,
              detail |-> CASE status = 503 ->
                                [text |-> "Database unavailable", name |-> ""]
                           [] status = 400 -> ErrorDetail(error)
                           [] status = 404 ->
                                [text |-> "Package not found",
                                 name |-> requirements[1].name]
                           [] OTHER -> NoDetail,
              body |-> CASE status = 301 ->
                              [url |-> ArchiveUrl(result[1].rev)]
                         [] status = 200 ->
                              [rev |-> result[1].rev,
                               hash |-> HashOf(result[1].rev),
                               date |-> revDate[result[1].rev]]
                         [] OTHER -> <<>>]
    /\ pc' = "responded"
    /\ UNCHANGED << catalog, revDate, requirements, version_rows, gac_max,
                    candidates, max_versions, optimal_revs, uncovered,
                    selected_revs, result, error, request, rev_pair, rev_set,
                    packages, flake_nix, flake_lock >>
    /\ UNCHANGED cand_input_name

InitPackageHttp ==
    /\ \E f \in [ Names \X Revs -> VersionStrings \cup { NoRow } ] :
         catalog = CatalogFrom(f, Names, Revs)
    /\ revDate \in [ Revs -> 1..MaxDate ]
    /\ requirements = <<>>
    /\ pc = "http"
    /\ version_rows = {}
    /\ gac_max = <<>>
    /\ candidates = <<>>
    /\ max_versions = <<>>
    /\ optimal_revs = <<>>
    /\ uncovered = {}
    /\ selected_revs = <<>>
    /\ result = <<>>
    /\ error = NoError
    /\ request \in [ endpoint : { "nixpkgs", "rev" },
                      parts : [ 1..1 -> HttpParts ] ]
    /\ response = NoResponse
    /\ rev_pair = <<>>
    /\ rev_set = {}
    /\ packages = <<>>
    /\ flake_nix = NoFlake
    /\ flake_lock = NoFlake
    /\ cand_input_name = <<>>

NextPackageHttp ==
    \/ PackageEndpoint
    \/ GetPackageVersions
    \/ GetPackageRow
    \/ PackageRespond

SpecPackageHttp == InitPackageHttp /\ [][NextPackageHttp]_vars

\* the response carries exactly the revision get_package returned
CarriesResolved ==
    /\ result # <<>>
    /\ \/ /\ request.endpoint = "nixpkgs"
          /\ response.status = 301
          /\ response.body = [url |-> ArchiveUrl(result[1].rev)]
       \/ /\ request.endpoint = "rev"
          /\ response.status = 200
          /\ response.body = [rev |-> result[1].rev,
                              hash |-> HashOf(result[1].rev),
                              date |-> revDate[result[1].rev]]
    /\ \E row \in catalog : /\ row.package = requirements[1].name
                             /\ row.rev = result[1].rev

\* the answer to a part that Requirement() rejects
InvalidRequirementAnswer ==
    /\ response.status = 400
    /\ response.detail.text = "Invalid requirement"
    /\ Untouched

\* the 404 naming the package looked up
NotFoundAnswer ==
    /\ response.status = 404
    /\ response.detail = [text |-> "Package not found",
                           name |-> request.parts[1].name]

\* C18 as stated: on /nixpkgs and /api/rev an unparsable requirement is
\* answered 400 "Invalid requirement" before any catalog lookup; otherwise
\* a connection failure is answered 503; otherwise a lookup returning no
\* package is answered 404 "Package not found: <name>"; otherwise the
\* response carries the resolved revision. No other outcome exists.
C18_OrderedExclusive ==
    pc = "responded" =>
        IF ~request.parts[1].valid THEN InvalidRequirementAnswer
        ELSE IF error.kind = "ConnectionFailure"
             THEN /\ response.status = 503
                  /\ response.detail.text = "Database unavailable"
        ELSE IF error = NoError /\ result = <<>> THEN NotFoundAnswer
        ELSE CarriesResolved

\* C18 amended: as stated, with one more outcome between the 503 and the
\* 404: a ValueError raised by the lookup itself (a recorded version string
\* that does not parse) is answered 400 with the error's text, after the
\* catalog was read.
C18_OrderedWithLookupError ==
    pc = "responded" =>
        IF ~request.parts[1].valid THEN InvalidRequirementAnswer
        ELSE IF error.kind = "ConnectionFailure"
             THEN /\ response.status = 503
                  /\ response.detail.text = "Database unavailable"
        ELSE IF error # NoError
             THEN /\ error.kind = "InvalidVersion"
                  /\ response.status = 400
                  /\ response.detail.text = "Invalid version"
                  /\ version_rows # {}
        ELSE IF result = <<>> THEN NotFoundAnswer
        ELSE CarriesResolved

\* a well-formed request answered 400 because a recorded version string of
\* the package does not parse
C18_Witness ==
    /\ pc = "responded"
    /\ request.parts[1].valid
    /\ error.kind = "InvalidVersion"
    /\ response.status = 400

\* a request answered with the revision resolved
C18_WitnessResolved ==
    /\ pc = "responded"
    /\ CarriesResolved

\* ------------------------------------------------------------------------
\* Properties of the greedy loop
\* ------------------------------------------------------------------------
\* the number of still-uncovered packages that rev covers
CoverCount(rev) == Cardinality(Coverage(rev, uncovered, optimal_revs))

\* rev is a greatest revision for (cover count, date), in lexicographic
\* order, among the revisions of the still-uncovered packages
MaximizesCountThenDate(rev) ==
    /\ rev \in AllRevs(uncovered, optimal_revs)
    /\ \A q \in AllRevs(uncovered, optimal_revs) :
          \/ CoverCount(q) < CoverCount(rev)
          \/ /\ CoverCount(q) = CoverCount(rev)
             /\ revDate[q] <= revDate[rev]

\* C19: at every iteration of the greedy loop the revision appended to
\* selected_revs maximizes (number of still-uncovered packages it covers,
\* date) in lexicographic order among the revisions of the still-uncovered
\* packages, and exactly the packages it covers leave uncovered.
C19_StepTakesLexicographicMax ==
    [][ (pc = "loop" /\ selected_revs' # selected_revs) =>
          /\ Len(selected_revs') = Len(selected_revs) + 1
          /\ SubSeq(selected_revs', 1, Len(selected_revs)) = selected_revs
          /\ MaximizesCountThenDate(selected_revs'[Len(selected_revs')])
          /\ uncovered' = uncovered \ Coverage(selected_revs'[Len(selected_revs')],
                                                uncovered, optimal_revs)
      ]_vars

\* a second iteration has run after a first whose revision covered more
\* packages than another revision, and as many as a third, older one
C19_Witness ==
    /\ Len(selected_revs) = 2
    /\ \E q \in CovRevs :
          /\ Cardinality({ n \in DOMAIN optimal_revs : q \in optimal_revs[n] })
                < Cardinality({ n \in DOMAIN optimal_revs :
                                  selected_revs[1] \in optimal_revs[n] })
          /\ q \in UNION { optimal_revs[n] : n \in DOMAIN optimal_revs }
    /\ \E q \in CovRevs :
          /\ Cardinality({ n \in DOMAIN optimal_revs : q \in optimal_revs[n] })
                = Cardinality({ n \in DOMAIN optimal_revs :
                                  selected_revs[1] \in optimal_revs[n] })
          /\ revDate[q] < revDate[selected_revs[1]]

\* the revisions one iteration of the loop may select, over the orders in
\* which the set all_revs may be iterated
SelectableRevs ==
    { ScanRevs(order, uncovered, optimal_revs, [rev |-> None, cov |-> {}]).rev :
        order \in Perms(AllRevs(uncovered, optimal_revs)) }

\* C20: selection is deterministic: from the same requirements and
\* candidates every run selects the same revisions in the same order, also
\* when two revisions tie on cover count and date, whatever the order in
\* which the set of revisions is iterated.
C20_SelectionDeterministic ==
    (pc = "loop" /\ uncovered # {}) => Cardinality(SelectableRevs) = 1

\* two distinct revisions of the still-uncovered packages cover equally
\* many of them and have the same date
TiedRevs ==
    \E q, r \in AllRevs(uncovered, optimal_revs) :
        /\ q # r
        /\ CoverCount(q) = CoverCount(r)
        /\ revDate[q] = revDate[r]

\* without such a tie one revision is selectable
C20_DeterministicWithoutTie ==
    (pc = "loop" /\ uncovered # {} /\ ~TiedRevs) =>
        Cardinality(SelectableRevs) = 1

\* one requirement whose maximum version is in two revisions of the same
\* date: either may be selected
C20_TieReached ==
    /\ pc = "loop"
    /\ Len(requirements) = 1
    /\ Cardinality(SelectableRevs) = 2

\* ------------------------------------------------------------------------
\* Termination of the greedy loop
\* ------------------------------------------------------------------------
\* select_optimal_packages runs to completion: a step that can be taken is
\* taken
SpecSelectFair == SpecSelect /\ WF_vars(NextSelect)

\* every requirement has a selected revision carrying its maximum version
AllAssignable ==
    \A i \in 1..Len(requirements) :
        Matching(candidates, max_versions, selected_revs,
                 requirements[i].name) # {}

\* C21: when every requirement has candidates, every iteration of the
\* greedy loop removes at least one package from uncovered (it never leaves
\* through the break of "best_rev is None"), the loop ends with uncovered
\* empty, every package then has a selected revision in its coverage set,
\* so the assignment never takes the max of an empty list, and the call
\* completes.
C21_LoopTerminatesCovered ==
    /\ [][ pc = "loop" =>
             /\ uncovered' \subseteq uncovered
             /\ uncovered' # uncovered
             /\ Len(selected_revs') = Len(selected_revs) + 1 ]_vars
    /\ [](pc = "assign" => (uncovered = {} /\ AllAssignable))
    /\ [](error.kind # "EmptyMax")
    /\ [](pc = "loop" => <>(pc = "assign"))
    /\ [](pc = "assign" => <>(pc = "done" /\ error = NoError))

\* the loop has ended after two iterations
C21_Witness ==
    /\ pc = "assign"
    /\ Len(selected_revs) = 2
    /\ uncovered = {}
    /\ AllAssignable

\* ------------------------------------------------------------------------
\* Properties of the assignment
\* ------------------------------------------------------------------------
\* the selected revisions that carry the maximum version of a package
SelectedCoverage(name) ==
    { r \in Range(selected_revs) : r \in optimal_revs[name] }

\* C22: each package of the result has one revision, which is a selected
\* revision of the package's coverage set and has the newest date of all
\* selected revisions in that coverage set, whether or not it is the
\* revision whose selection first covered the package.
C22_AssignedNewestSelected ==
    Returned =>
        /\ Len(result) = Len(requirements)
        /\ \A i \in 1..Len(requirements) :
              /\ result[i].rev \in SelectedCoverage(requirements[i].name)
              /\ \A r \in SelectedCoverage(requirements[i].name) :
                    revDate[r] <= revDate[result[i].rev]

\* a package covered by the first selected revision and assigned to the
\* second, newer one
C22_Witness ==
    /\ Returned
    /\ Len(selected_revs) = 2
    /\ \E i \in 1..Len(requirements) :
          /\ selected_revs[1] \in optimal_revs[requirements[i].name]
          /\ result[i].rev = selected_revs[2]
          /\ revDate[selected_revs[1]] < revDate[selected_revs[2]]

\* C23: the revision selected at position i (counted from 0) has the
\* label nixpkgs-i, every package of the result carries the label of its
\* assigned revision, and two packages of the result have the same label
\* exactly when they are assigned to the same revision identifier.
C23_LabelsFollowSelection ==
    Returned =>
        /\ \A i \in 1..Len(result) :
              /\ result[i].input_name \in 0..(Len(selected_revs) - 1)
              /\ selected_revs[result[i].input_name + 1] = result[i].rev
        /\ \A i, j \in 1..Len(result) :
              result[i].input_name = result[j].input_name
                  <=> result[i].rev = result[j].rev

\* three packages on two revisions: two share a label, the third has the
\* other label
C23_Witness ==
    /\ Returned
    /\ Len(selected_revs) = 2
    /\ Len(result) >= 3
    /\ \E i, j, k \in 1..Len(result) :
          /\ i # j
          /\ result[i].input_name = result[j].input_name
          /\ result[k].input_name # result[i].input_name

\* ------------------------------------------------------------------------
\* Side effects of select_optimal_packages
\* ------------------------------------------------------------------------
\* C24: select_optimal_packages changes nothing it was given: through every
\* step of the call the requirements, the revisions and the fields of every
\* candidate entry, the field _input_name included, stay as they were.
C24_NoSideEffects ==
    [][ (pc = "select" \/ pc = "loop" \/ pc = "assign") =>
          ( /\ requirements' = requirements
            /\ revDate' = revDate
            /\ candidates' = candidates
            /\ cand_input_name' = cand_input_name ) ]_vars

\* what does hold: only the field _input_name of the candidates returned is
\* written
C24_OnlyInputNameWritten ==
    [][ (pc = "select" \/ pc = "loop" \/ pc = "assign") =>
          ( /\ requirements' = requirements
            /\ revDate' = revDate
            /\ candidates' = candidates
            /\ DOMAIN cand_input_name' =
                  DOMAIN cand_input_name
                    \cup { CandidateOf(result'[i]) : i \in 1..Len(result') } ) ]_vars

\* a call has returned and left _input_name set on a candidate
C24_CandidateWritten ==
    /\ Returned
    /\ DOMAIN cand_input_name # {}

\* ------------------------------------------------------------------------
\* Shape of the result
\* ------------------------------------------------------------------------
\* C25: the result of select_optimal_packages has one package per
\* requirement, in the order of the requirements: the lengths are equal and
\* the i-th package has the name of the i-th requirement.
C25_OnePerRequirementInOrder ==
    Returned =>
        /\ Len(result) = Len(requirements)
        /\ \A i \in 1..Len(requirements) :
              result[i].name = requirements[i].name

\* a call with two requirements of different names has returned
C25_Witness ==
    /\ Returned
    /\ Len(requirements) = 2
    /\ requirements[1].name # requirements[2].name
    /\ Len(result) = 2

\* ------------------------------------------------------------------------
\* Selected revisions and the input names used
\* ------------------------------------------------------------------------
\* the input names the result uses
UsedInputNames == { result[i].input_name : i \in 1..Len(result) }

\* C26: every revision the greedy loop selected is the revision of at least
\* one result package, so with k revisions selected the result uses exactly
\* the k input names nixpkgs-0 .. nixpkgs-(k-1).
C26_EverySelectedRevisionUsed ==
    Returned =>
        /\ \A k \in 1..Len(selected_revs) :
              \E i \in 1..Len(result) : result[i].rev = selected_revs[k]
        /\ UsedInputNames = 0..(Len(selected_revs) - 1)

\* C26 (amended): every result package has a selected revision, the input
\* names used are among nixpkgs-0 .. nixpkgs-(k-1) and the revision selected
\* last is always used; an earlier selected revision can be left without a
\* package.
C26_UsedNamesAmongSelected ==
    Returned =>
        /\ \A i \in 1..Len(result) : result[i].rev \in Range(selected_revs)
        /\ UsedInputNames \subseteq 0..(Len(selected_revs) - 1)
        /\ selected_revs # <<>> =>
              \E i \in 1..Len(result) :
                  result[i].rev = selected_revs[Len(selected_revs)]

\* a call has returned with a selected revision that no result package uses
C26_Witness ==
    /\ Returned
    /\ \E k \in 1..Len(selected_revs) :
         \A i \in 1..Len(result) : result[i].rev # selected_revs[k]
    /\ Cardinality(UsedInputNames) < Len(selected_revs)

\* ------------------------------------------------------------------------
\* Candidates returned by get_all_candidates
\* ------------------------------------------------------------------------
\* the rows of package name whose version satisfies the specifier in force
SatisfyingRows(name) ==
    { row \in catalog :
        /\ row.package = name
        /\ IsValidVersion(row.version)
        /\ InSpecifier(ParseVersion(row.version),
                       ReqByName(requirements, name).spec) }

\* those of them whose version is the greatest in version order
MaximumRows(name) ==
    { row \in SatisfyingRows(name) :
        \A other \in SatisfyingRows(name) :
            ~VersionGT(ParseVersion(other.version), ParseVersion(row.version)) }

\* get_all_candidates has returned its candidates
CandidatesReturned == pc = "select" /\ error = NoError

\* C27: when get_all_candidates returns, every requested package with a
\* recorded version satisfying its specifier has a non-empty candidate list
\* holding exactly the rows, of all revisions, whose version equals the
\* greatest satisfying version in version order, however the version
\* strings are spelled and in whatever order the first query gave them.
C27_AllRowsOfMaximum ==
    CandidatesReturned =>
        \A name \in ReqNames(requirements) :
            SatisfyingRows(name) # {} =>
                /\ candidates[name] # {}
                /\ candidates[name] =
                      { [name |-> row.package,
                         version |-> ParseVersion(row.version),
                         rev |-> row.rev] : row \in MaximumRows(name) }

\* the same for catalogs whose version strings are all in normalized form
C27_NormalizedAllRowsOfMaximum ==
    NormalizedCatalog => C27_AllRowsOfMaximum

\* empty candidates returned for a package with a satisfying version
C27_EmptyDespiteSatisfying ==
    /\ CandidatesReturned
    /\ \E name \in ReqNames(requirements) :
         SatisfyingRows(name) # {} /\ candidates[name] = {}

\* ------------------------------------------------------------------------
\* Unparsable version strings
\* ------------------------------------------------------------------------
\* a requested package has a recorded version string that is no version
UnparsableRecorded ==
    \E row \in catalog :
        row.package \in ReqNames(requirements) /\ ~IsValidVersion(row.version)

\* C28: when a version string recorded for a requested package cannot be
\* parsed, get_all_candidates, once it has read the versions, raises for the
\* whole request: no candidates and no result are produced, whatever the
\* other recorded versions are.
C28_UnparsableVersionRaises ==
    ( /\ UnparsableRecorded
      /\ pc \notin { "start", "versions" }
      /\ error.kind # "ConnectionFailure" )
        => /\ pc = "done"
           /\ error.kind = "InvalidVersion"
           /\ candidates = <<>>
           /\ result = <<>>

\* the request failed on an empty version string although the same package
\* has a satisfying version and the other requested package has one too
C28_Witness ==
    /\ pc = "done"
    /\ error.kind = "InvalidVersion"
    /\ Len(requirements) = 2
    /\ requirements[1].name # requirements[2].name
    /\ \A i \in 1..2 : SatisfyingRows(requirements[i].name) # {}
    /\ \E row \in catalog :
         /\ row.package = requirements[1].name
         /\ ~IsValidVersion(row.version)

\* ------------------------------------------------------------------------
\* One requirement through packages_from_string, compared with get_package
\* ------------------------------------------------------------------------
AgreeName == "a"
AgreeRevs == { "R1", "R2" }
\* "9.0", "10", "10.0", "v10.0" and ""
AgreeVersionStrings == { [pfx |-> "", rel |-> << 9, 0 >>],
                         [pfx |-> "", rel |-> << 10 >>],
                         [pfx |-> "", rel |-> << 10, 0 >>],
                         [pfx |-> "v", rel |-> << 10, 0 >>],
                         [pfx |-> "", rel |-> <<>>] }

InitAgree ==
    /\ \E f \in [ { AgreeName } \X AgreeRevs
                    -> AgreeVersionStrings \cup { NoRow } ] :
         catalog = CatalogFrom(f, { AgreeName }, AgreeRevs)
    /\ revDate \in [ AgreeRevs -> 1..MaxDate ]
    /\ \E spec \in Specs :
         requirements = << [name |-> AgreeName, spec |-> spec] >>
    /\ pc = "start"
    /\ version_rows = {}
    /\ gac_max = <<>>
    /\ candidates = <<>>
    /\ max_versions = <<>>
    /\ optimal_revs = <<>>
    /\ uncovered = {}
    /\ selected_revs = <<>>
    /\ result = <<>>
    /\ error = NoError
    /\ request = NoRequest
    /\ response = NoResponse
    /\ rev_pair = <<>>
    /\ rev_set = {}
    /\ packages = <<>>
    /\ flake_nix = NoFlake
    /\ flake_lock = NoFlake
    /\ cand_input_name = <<>>

SpecAgree == InitAgree /\ [][Next]_vars

\* what get_package may return for the one requirement on the same catalog
PkgResults ==
    GetPackageResults(catalog,
                      DistinctVersions(catalog, { requirements[1].name }),
                      requirements[1])

\* the multi-package path has ended, the catalog was reachable and every
\* recorded version string parsed
Resolved ==
    /\ pc = "done"
    /\ error.kind \notin { "ConnectionFailure", "InvalidVersion" }

\* C29: for one requirement, packages_from_string and get_package agree on
\* the same catalog: get_package returns None exactly when the multi-package
\* path raises "Version not found", and otherwise both give the same version
\* and a revision of the same date, the newest of the revisions recorded with
\* that version.
C29_PathsAgree ==
    Resolved =>
        \A r \in PkgResults :
            /\ r = <<>> <=> error.kind = "VersionNotFound"
            /\ (r # <<>> /\ Returned) =>
                  /\ VersionEQ(r[1].version, result[1].version)
                  /\ revDate[r[1].rev] = revDate[result[1].rev]
                  /\ \A rev \in RevisionsWith(result[1].version) :
                        revDate[rev] <= revDate[result[1].rev]

\* every recorded version is spelled in normalized form and in one way
OneSpelling ==
    /\ NormalizedCatalog
    /\ \A r1, r2 \in catalog :
         ( /\ r1.package = r2.package
           /\ VersionEQ(ParseVersion(r1.version), ParseVersion(r2.version)) )
             => r1.version = r2.version

\* the same for catalogs that spell every version in one, normalized, way
C29_PathsAgreeOneSpelling ==
    OneSpelling => C29_PathsAgree

\* the multi-package path returned a package where get_package may return
\* one of another date
C29_DatesDiffer ==
    /\ Returned
    /\ \E r \in PkgResults :
         r # <<>> /\ revDate[r[1].rev] # revDate[result[1].rev]

\* ------------------------------------------------------------------------
\* updater.py committing builds while a request reads the catalog
\* ------------------------------------------------------------------------
\* the rows of a build of revision rev that the catalog does not have yet:
\* ON CONFLICT (rev, package) DO NOTHING
FreshRows(cat, rev, f) ==
    { row \in CatalogFrom([ k \in (DOMAIN f) \X { rev } |-> f[k[1]] ],
                          DOMAIN f, { rev }) :
        ~\E old \in cat : old.rev = rev /\ old.package = row.package }

\* updater.py lines 91-126: one build inserted and committed, while the
\* request is between its connection and its second query
UpdaterCommit ==
    /\ pc \in { "start", "versions", "rows" }
    /\ \E rev \in Revs :
         \E f \in [ Names -> VersionStrings \cup { NoRow } ] :
            /\ FreshRows(catalog, rev, f) # {}
            /\ catalog' = catalog \cup FreshRows(catalog, rev, f)
    /\ UNCHANGED << revDate, requirements, pc, version_rows, gac_max,
                    candidates, max_versions, optimal_revs, uncovered,
                    selected_revs, result, error >>
    /\ UNCHANGED outer
    /\ UNCHANGED cand_input_name

NextUpdater == Next \/ UpdaterCommit

SpecUpdater == Init /\ [][NextUpdater]_vars

\* the first read recorded a version of name that satisfies its specifier
HadSatisfying(name) ==
    \E row \in version_rows :
        /\ row.package = name
        /\ IsValidVersion(row.version)
        /\ InSpecifier(ParseVersion(row.version),
                       ReqByName(requirements, name).spec)

\* the greatest such version was recorded in normalized spelling
HadSatisfyingNormalized(name) ==
    \E row \in version_rows :
        /\ row.package = name
        /\ IsValidVersion(row.version)
        /\ row.version.pfx = ""
        /\ InSpecifier(ParseVersion(row.version),
                       ReqByName(requirements, name).spec)
        /\ \A other \in version_rows :
              ( /\ other.package = name
                /\ IsValidVersion(other.version)
                /\ InSpecifier(ParseVersion(other.version),
                               ReqByName(requirements, name).spec) )
                => ~VersionGT(ParseVersion(other.version),
                              ParseVersion(row.version))

\* p is a row of the catalog (which no longer changes after the second read)
IsCatalogRow(p) ==
    \E row \in catalog :
        /\ row.package = p.name
        /\ row.rev = p.rev
        /\ IsValidVersion(row.version)
        /\ ParseVersion(row.version) = p.version

\* C30: with builds committed at any point up to the second read, the request
\* does not fail spuriously: after the second read every package that had a
\* satisfying version at the first read has candidates, and every package of
\* the result is a row of the catalog as of the second read.
C30_NoSpuriousFailure ==
    /\ candidates # <<>> =>
          \A name \in ReqNames(requirements) :
              HadSatisfying(name) => candidates[name] # {}
    /\ Returned => \A i \in 1..Len(result) : IsCatalogRow(result[i])

\* what the interleaving leaves intact: a package whose greatest satisfying
\* version was recorded in normalized spelling at the first read has
\* candidates after the second, and the result is made of catalog rows
C30_CommitsKeepCandidates ==
    /\ candidates # <<>> =>
          \A name \in ReqNames(requirements) :
              HadSatisfyingNormalized(name) => candidates[name] # {}
    /\ Returned => \A i \in 1..Len(result) : IsCatalogRow(result[i])

\* a call has returned although a build with a newer version of a requested
\* package was committed between its two reads
C30_CommittedBetweenReads ==
    /\ Returned
    /\ \E row \in catalog :
         /\ row.package \in ReqNames(requirements)
         /\ IsValidVersion(row.version)
         /\ [package |-> row.package, version |-> row.version]
               \notin version_rows
         /\ \A i \in 1..Len(result) :
               result[i].name = row.package =>
                   VersionGT(ParseVersion(row.version), result[i].version)

====
